---- MODULE Spec2Model ----
(***************************************************************************)
(* social-pulse: the stream processor (kafka/consumer.py), the producer it *)
(* republishes through (kafka/producer.py) and the storage write it uses   *)
(* (database/models.py).                                                   *)
(*                                                                         *)
(* One StreamProcessor instance lives in each operating-system process.    *)
(* A process is started either by main() (which installs the SIGINT /      *)
(* SIGTERM handler and calls run()) or by a caller that constructs the     *)
(* instance and drives connect() / run() / stop() itself.  All processes   *)
(* share the posts table and the Kafka topics.                             *)
(*                                                                         *)
(* The second half models the enrichment pipeline (nlp/pipeline.py) and    *)
(* check_alerts as functions, explored one call at a time (CallSpec), and  *)
(* threads calling analyze on one pipeline at the same time (ConcSpec).    *)
(* PairSpec runs two processors against the same records and table.        *)
(***************************************************************************)
EXTENDS Integers, Sequences, FiniteSets, TLC

Procs == {"p1", "p2"}

\* Environment events (process starts, deliveries, calls, signals) explored
\* per process.
MaxEvents == 6

(***************************************************************************)
(* JSON values of a raw record, tagged with their Python type.  v is the   *)
(* text str() gives, which is what an f-string interpolates.               *)
(***************************************************************************)
JStr(s) == [t |-> "str", v |-> s]
JInt(s) == [t |-> "int", v |-> s]
Missing == [t |-> "missing", v |-> ""]

Raw(payload, source, id, title, score, created_utc) ==
    [payload |-> payload, source |-> source, id |-> id, title |-> title,
     score |-> score, created_utc |-> created_utc]

NoMsg == Raw("none", Missing, Missing, Missing, Missing, Missing)

\* What poll() returns at the end of a partition: a message whose error() is
\* _PARTITION_EOF.
EofMsg == Raw("error_eof", Missing, Missing, Missing, Missing, Missing)

\* The raw records the inbound topic can deliver (any of them, any number of
\* times: delivery is at least once).
Msgs ==
    { Raw("object", JStr("hn"), JInt("1"), JStr("Launch day"), JInt("5"),
          JStr("2024-01-01T00:00:00")),
      Raw("object", JStr("reddit"), JStr("1"), JStr("Ask me anything"), JInt("0"),
          Missing),
      Raw("object", Missing, Missing, Missing, Missing, Missing),
      Raw("object", Missing, Missing, JStr("Untitled thread"), JInt("0"), Missing),
      Raw("object", JStr("hn"), JInt("2"), JInt("42"), JInt("5"), JStr("yesterday")),
      Raw("garbage", Missing, Missing, Missing, Missing, Missing) }

\* dict.get(key, default): the default only when the key is absent.
Get(value, key, default) ==
    IF value[key] = Missing THEN default ELSE value[key]

\* json.loads(msg.value().decode('utf-8')) succeeds and yields a dict.
Decodes(m) == m.payload = "object"

\* isinstance(created, str)
CreatedIsStr(m) == Get(m, "created_utc", Missing).t = "str"

\* NLPPipeline.analyze raises: ViralPredictor.predict calls title.lower() and
\* divides score by age_hours.  (The other fields of the records in Msgs are
\* of the types the pipeline expects.)
EnrichRaises(m) ==
    \/ Get(m, "title", JStr("")).t # "str"
    \/ Get(m, "score", JInt("0")).t # "int"

\* f"{source}_{value.get('id', '')}"
ExternalId(m) == Get(m, "source", JStr("unknown")).v \o "_" \o Get(m, "id", JStr("")).v

NoRec == [external_id |-> "", source |-> "", title |-> "",
          created_at |-> "none", scraped_at |-> "none"]

\* The processed dict process_message builds, as far as the storage write and
\* the republish read it: created_at and scraped_at are datetime objects.
Processed(m) ==
    [external_id |-> ExternalId(m),
     source      |-> Get(m, "source", JStr("unknown")).v,
     title       |-> Get(m, "title", JStr("")).v,
     created_at  |-> "datetime",
     scraped_at  |-> "datetime"]

\* json.dumps(value) with no default= hook accepts no datetime.
JsonSerializable(rec) ==
    /\ rec.created_at # "datetime"
    /\ rec.scraped_at # "datetime"

VARIABLES
    pc,             \* where each process is
    mode,           \* "none" | "main" (started by main()) | "api"
    events,         \* environment events used by each process
    stopper,        \* a stop() call made by another thread: "idle" | "closing"
    running,        \* self.running (an Event)
    consumer,       \* self.consumer: "none" | "open" | "closed"
    processed_count,
    error_count,
    metrics,        \* self.metrics
    msg,            \* run(): msg
    processed,      \* run(): processed
    pending,        \* the session holds a Post that is not committed yet
    exc,            \* the exception propagating out of run(), "none" if none
    posts,          \* the posts table: rows in insertion order
    outStream,      \* social.processed.posts
    alertStream,    \* social.alerts
    statsLogged,    \* history: "Final stats" lines printed by the instance
    closeCalls,     \* history: consumer.close() calls made by the instance
    stopCalled,     \* history: "no", or stop() has been called: "connected"
                    \* if ever while the instance had a consumer, else
                    \* "unconnected"
    reconnected,    \* history: connect() was called after a stop()
    inserted,       \* history: this iteration's record was committed
    storeOk,        \* history: external ids whose store_post did not raise
    storeDone,      \* history: external ids whose store_post has completed
    clearedAt,      \* history: where the loop was when the flag was cleared
    pollsAfterClear,\* history: polls started since then (counted up to 2)
    call,           \* a function of the pipeline called on its own: the call
    ret,            \* ... and what it returned
    config,         \* the tables the pipeline's classes hold once the module
                    \* is loaded (class attributes, shared by every call)
    engine,         \* what loading the module fixes for every call: the
                    \* sentiment backend and the float arithmetic
    threads,        \* concurrent callers of one NLPPipeline: position,
                    \* arguments, result
    frames          \* the local variables of each call of analyze/predict

instanceVars == <<running, consumer, processed_count, error_count, metrics>>
frameVars == <<msg, processed, pending, exc>>
streamVars == <<outStream, alertStream>>
dbVars == <<posts, storeOk, storeDone, inserted>>
stopHist == <<statsLogged, closeCalls, stopCalled, reconnected>>
clearHist == <<clearedAt, pollsAfterClear>>
envVars == <<mode, events, stopper>>
procVars == <<pc, instanceVars, frameVars, streamVars, dbVars, stopHist,
              clearHist, envVars>>
callVars == <<call, ret>>
concVars == <<config, engine, threads, frames>>
vars == <<procVars, callVars, concVars>>

NoCall == [fn |-> "none"]
NoRet == [fn |-> "none"]

\* The threads that call analyze on one shared NLPPipeline.
Callers == {"t1", "t2"}

\* The module is not loaded yet.
NoConfig == [loaded |-> FALSE]
NoEngine == [backend |-> "none"]

\* A thread outside analyze, and the locals of a call that has assigned none.
NoArgs == [title |-> <<>>, body |-> <<>>, score |-> 0, num_comments |-> 0,
           age10 |-> 0]
IdleThread == [pc |-> "idle", args |-> NoArgs, k |-> 0, ret |-> NoRet]
NoLocals == [sent_score |-> [n |-> 0, d |-> 1], sent_label |-> "",
             topics |-> <<>>, keywords |-> <<>>, features |-> <<>>,
             viral_score |-> [n |-> 0, d |-> 1], engagement |-> ""]

\* Positions inside run()'s try block.
LoopPcs == {"loop", "poll", "pm_decode", "pm_fromiso", "pm_nlp",
            "store_query", "store_commit", "publish", "alerts", "metrics"}
InRun(p) == pc[p] \in LoopPcs \cup {"finally"}

NewMetrics == [processed |-> 0, errors |-> 0, avg_processing_time |-> 0,
               last_processed |-> "None"]

\* The processes of a behaviour of Spec: one, restarted as often as the bound
\* allows.  The others stay "absent".
Present == {"p1"}

InitWith(present) ==
    /\ pc = [p \in Procs |-> IF p \in present THEN "none" ELSE "absent"]
    /\ mode = [p \in Procs |-> "none"]
    /\ events = [p \in Procs |-> 0]
    /\ stopper = [p \in Procs |-> "idle"]
    /\ running = [p \in Procs |-> FALSE]
    /\ consumer = [p \in Procs |-> "none"]
    /\ processed_count = [p \in Procs |-> 0]
    /\ error_count = [p \in Procs |-> 0]
    /\ metrics = [p \in Procs |-> NewMetrics]
    /\ msg = [p \in Procs |-> NoMsg]
    /\ processed = [p \in Procs |-> NoRec]
    /\ pending = [p \in Procs |-> FALSE]
    /\ exc = [p \in Procs |-> "none"]
    /\ posts = <<>>
    /\ outStream = <<>>
    /\ alertStream = <<>>
    /\ statsLogged = [p \in Procs |-> 0]
    /\ closeCalls = [p \in Procs |-> 0]
    /\ stopCalled = [p \in Procs |-> "no"]
    /\ reconnected = [p \in Procs |-> FALSE]
    /\ inserted = [p \in Procs |-> FALSE]
    /\ storeOk = {}
    /\ storeDone = {}
    /\ clearedAt = [p \in Procs |-> "none"]
    /\ pollsAfterClear = [p \in Procs |-> 0]
    /\ call = NoCall
    /\ ret = NoRet
    /\ config = NoConfig
    /\ engine = NoEngine
    /\ threads = [c \in Callers |-> IdleThread]
    /\ frames = [c \in Callers |-> NoLocals]

Init == InitWith(Present)

Event(p) ==
    /\ events[p] < MaxEvents
    /\ events' = [events EXCEPT ![p] = @ + 1]

(***************************************************************************)
(* The instance: construction, connect(), stop().                          *)
(***************************************************************************)

\* StreamProcessor.__init__, and the locals of a run() not yet entered.
NewInstance(p) ==
    /\ processed_count' = [processed_count EXCEPT ![p] = 0]
    /\ error_count' = [error_count EXCEPT ![p] = 0]
    /\ metrics' = [metrics EXCEPT ![p] = NewMetrics]
    /\ msg' = [msg EXCEPT ![p] = NoMsg]
    /\ processed' = [processed EXCEPT ![p] = NoRec]
    /\ pending' = [pending EXCEPT ![p] = FALSE]
    /\ exc' = [exc EXCEPT ![p] = "none"]
    /\ statsLogged' = [statsLogged EXCEPT ![p] = 0]
    /\ closeCalls' = [closeCalls EXCEPT ![p] = 0]
    /\ stopCalled' = [stopCalled EXCEPT ![p] = "no"]
    /\ reconnected' = [reconnected EXCEPT ![p] = FALSE]
    /\ inserted' = [inserted EXCEPT ![p] = FALSE]
    /\ stopper' = [stopper EXCEPT ![p] = "idle"]
    /\ clearedAt' = [clearedAt EXCEPT ![p] = "none"]
    /\ pollsAfterClear' = [pollsAfterClear EXCEPT ![p] = 0]

\* Consumer.close() on a consumer that is closed already: a no-op in some
\* releases of the client library, RuntimeError in others.
CloseOutcomes(p) ==
    IF consumer[p] = "closed" THEN {"noop", "raise"} ELSE {"noop"}

CloseRaises(p, o) == consumer[p] = "closed" /\ o = "raise"

\* stop(), line 210: self.running.clear()
StopClear(p) ==
    /\ running' = [running EXCEPT ![p] = FALSE]
    /\ stopCalled' = [stopCalled EXCEPT ![p] =
           IF consumer[p] # "none" \/ @ = "connected" THEN "connected"
           ELSE "unconnected"]
    /\ clearedAt' = [clearedAt EXCEPT ![p] =
           IF @ = "none" /\ running[p] /\ pc[p] \in LoopPcs THEN pc[p] ELSE @]

\* StopClose that also drops the reference (self.consumer = None).
StopCloseForgets(p, o) ==
    /\ consumer' = [consumer EXCEPT ![p] = "none"]
    /\ closeCalls' = [closeCalls EXCEPT ![p] = IF consumer[p] = "none" THEN @ ELSE @ + 1]
    /\ statsLogged' = [statsLogged EXCEPT ![p] = IF CloseRaises(p, o) THEN @ ELSE @ + 1]

\* StopClose that does not close the consumer.
StopCloseLeavesOpen(p, o) ==
    /\ consumer' = consumer
    /\ closeCalls' = closeCalls
    /\ statsLogged' = [statsLogged EXCEPT ![p] = @ + 1]

\* stop(), lines 211-213: close the consumer if there is one, then print the
\* final statistics (not reached when close() raises).
StopClose(p, o) ==
    /\ consumer' = [consumer EXCEPT ![p] = IF @ = "none" THEN "none" ELSE "closed"]
    /\ closeCalls' = [closeCalls EXCEPT ![p] = IF consumer[p] = "none" THEN @ ELSE @ + 1]
    /\ statsLogged' = [statsLogged EXCEPT ![p] = IF CloseRaises(p, o) THEN @ ELSE @ + 1]

\* main(): a new process; db.create_tables(), the instance, the signal
\* handler, then run() up to the loop (run() connects: there is no consumer).
Main(p) ==
    /\ pc[p] \in {"none", "exited"}
    /\ Event(p)
    /\ NewInstance(p)
    /\ mode' = [mode EXCEPT ![p] = "main"]
    /\ consumer' = [consumer EXCEPT ![p] = "open"]
    /\ running' = [running EXCEPT ![p] = TRUE]
    /\ pc' = [pc EXCEPT ![p] = "loop"]
    /\ UNCHANGED <<posts, storeOk, storeDone, streamVars>>
    /\ UNCHANGED callVars
    /\ UNCHANGED concVars

\* A new process whose code constructs the instance and calls its methods.
Construct(p) ==
    /\ pc[p] \in {"none", "exited"}
    /\ Event(p)
    /\ NewInstance(p)
    /\ mode' = [mode EXCEPT ![p] = "api"]
    /\ consumer' = [consumer EXCEPT ![p] = "none"]
    /\ running' = [running EXCEPT ![p] = FALSE]
    /\ pc' = [pc EXCEPT ![p] = "idle"]
    /\ UNCHANGED <<posts, storeOk, storeDone, streamVars>>
    /\ UNCHANGED callVars
    /\ UNCHANGED concVars

\* Connect that starts the counters afresh.
ConnectResets(p) ==
    /\ mode[p] = "api"
    /\ pc[p] = "idle"
    /\ Event(p)
    /\ consumer' = [consumer EXCEPT ![p] = "open"]
    /\ running' = [running EXCEPT ![p] = TRUE]
    /\ reconnected' = [reconnected EXCEPT ![p] = @ \/ stopCalled[p] # "no"]
    /\ processed_count' = [processed_count EXCEPT ![p] = 0]
    /\ error_count' = [error_count EXCEPT ![p] = 0]
    /\ UNCHANGED <<pc, mode, stopper, metrics, frameVars, streamVars, dbVars,
                   statsLogged, closeCalls, stopCalled, clearHist>>
    /\ UNCHANGED callVars
    /\ UNCHANGED concVars

\* connect(), called by the owner of the instance between runs.
Connect(p) ==
    /\ mode[p] = "api"
    /\ pc[p] = "idle"
    /\ Event(p)
    /\ consumer' = [consumer EXCEPT ![p] = "open"]
    /\ running' = [running EXCEPT ![p] = TRUE]
    /\ reconnected' = [reconnected EXCEPT ![p] = @ \/ stopCalled[p] # "no"]
    /\ UNCHANGED <<pc, mode, stopper, processed_count, error_count, metrics,
                   frameVars, streamVars, dbVars, statsLogged, closeCalls,
                   stopCalled, clearHist>>
    /\ UNCHANGED callVars
    /\ UNCHANGED concVars

\* run() called by the owner of the instance, up to the loop.
Run(p) ==
    /\ mode[p] = "api"
    /\ pc[p] = "idle"
    /\ Event(p)
    /\ consumer' = [consumer EXCEPT ![p] = IF @ = "none" THEN "open" ELSE @]
    /\ running' = [running EXCEPT ![p] = IF consumer[p] = "none" THEN TRUE ELSE @]
    /\ pc' = [pc EXCEPT ![p] = "loop"]
    /\ msg' = [msg EXCEPT ![p] = NoMsg]
    /\ processed' = [processed EXCEPT ![p] = NoRec]
    /\ exc' = [exc EXCEPT ![p] = "none"]
    /\ clearedAt' = [clearedAt EXCEPT ![p] = "none"]
    /\ pollsAfterClear' = [pollsAfterClear EXCEPT ![p] = 0]
    /\ UNCHANGED <<mode, stopper, processed_count, error_count, metrics, pending,
                   streamVars, dbVars, stopHist>>
    /\ UNCHANGED callVars
    /\ UNCHANGED concVars

\* stop() called by the owner of the instance (from another thread while
\* run() is looping): first the flag ...
StopBegin(p) ==
    /\ mode[p] = "api"
    /\ pc[p] \in {"idle", "finally"} \cup LoopPcs
    /\ stopper[p] = "idle"
    /\ Event(p)
    /\ StopClear(p)
    /\ stopper' = [stopper EXCEPT ![p] = "closing"]
    /\ UNCHANGED <<pc, mode, consumer, processed_count, error_count, metrics,
                   frameVars, streamVars, dbVars, statsLogged, closeCalls,
                   reconnected, pollsAfterClear>>
    /\ UNCHANGED callVars
    /\ UNCHANGED concVars

\* ... then the consumer and the final statistics.
StopEnd(p) ==
    /\ stopper[p] = "closing"
    /\ \E o \in CloseOutcomes(p) : StopClose(p, o)
    /\ stopper' = [stopper EXCEPT ![p] = "idle"]
    /\ UNCHANGED <<pc, mode, events, running, processed_count, error_count,
                   metrics, frameVars, streamVars, dbVars, stopCalled,
                   reconnected, clearHist>>
    /\ UNCHANGED callVars
    /\ UNCHANGED concVars

(***************************************************************************)
(* Signals.  A Python signal handler runs in the main thread between two   *)
(* bytecodes of whatever run() is executing; an exception it raises        *)
(* propagates from that point.                                             *)
(***************************************************************************)

\* main.signal_handler: processor.stop(), then sys.exit(0).  SystemExit (or
\* the RuntimeError of a second close()) reaches run()'s finally, except
\* inside the bare "except:" around datetime.fromisoformat, which swallows it.
Signal(p) ==
    /\ mode[p] = "main"
    /\ pc[p] \in LoopPcs
    /\ Event(p)
    /\ \E o \in CloseOutcomes(p) :
        /\ StopClear(p)
        /\ StopClose(p, o)
        /\ IF pc[p] = "pm_fromiso"
           THEN /\ pc' = [pc EXCEPT ![p] = "pm_nlp"]
                /\ exc' = exc
           ELSE /\ pc' = [pc EXCEPT ![p] = "finally"]
                /\ exc' = [exc EXCEPT ![p] =
                       IF CloseRaises(p, o) THEN "RuntimeError" ELSE "SystemExit"]
    /\ UNCHANGED <<mode, stopper, processed_count, error_count, metrics, msg,
                   processed, pending, streamVars, dbVars, reconnected,
                   pollsAfterClear>>
    /\ UNCHANGED callVars
    /\ UNCHANGED concVars

\* SIGINT with no handler installed: KeyboardInterrupt, caught by run()'s
\* "except KeyboardInterrupt" unless the bare "except:" swallows it first.
Interrupt(p) ==
    /\ mode[p] = "api"
    /\ pc[p] \in LoopPcs
    /\ Event(p)
    /\ pc' = [pc EXCEPT ![p] = IF @ = "pm_fromiso" THEN "pm_nlp" ELSE "finally"]
    /\ UNCHANGED <<mode, stopper, instanceVars, frameVars, streamVars, dbVars,
                   stopHist, clearHist>>
    /\ UNCHANGED callVars
    /\ UNCHANGED concVars

\* The process is killed: nothing of run() executes any more, and what the
\* session had not committed is lost.
Kill(p) ==
    /\ pc[p] \in {"idle", "finally"} \cup LoopPcs
    /\ Event(p)
    /\ pc' = [pc EXCEPT ![p] = "exited"]
    /\ exc' = [exc EXCEPT ![p] = "killed"]
    /\ pending' = [pending EXCEPT ![p] = FALSE]
    /\ stopper' = [stopper EXCEPT ![p] = "idle"]
    /\ UNCHANGED <<mode, instanceVars, msg, processed, streamVars, dbVars,
                   stopHist, clearHist>>
    /\ UNCHANGED callVars
    /\ UNCHANGED concVars

(***************************************************************************)
(* run(): the loop.                                                        *)
(***************************************************************************)

\* while self.running.is_set():
LoopCheck(p) ==
    /\ pc[p] = "loop"
    /\ pc' = [pc EXCEPT ![p] = IF running[p] THEN "poll" ELSE "finally"]
    /\ UNCHANGED <<instanceVars, frameVars, streamVars, dbVars, stopHist,
                   clearHist, envVars>>
    /\ UNCHANGED callVars
    /\ UNCHANGED concVars

\* A call of self.consumer.poll(timeout=1.0) starts.
PollStarts(p) ==
    /\ pc[p] = "poll"
    /\ pollsAfterClear' = [pollsAfterClear EXCEPT ![p] =
           IF clearedAt[p] # "none" /\ @ < 2 THEN @ + 1 ELSE @]
    /\ UNCHANGED clearedAt

\* poll() on a consumer that stop() has closed raises RuntimeError.
PollClosed(p) ==
    /\ PollStarts(p)
    /\ consumer[p] = "closed"
    /\ pc' = [pc EXCEPT ![p] = "finally"]
    /\ exc' = [exc EXCEPT ![p] = "RuntimeError"]
    /\ UNCHANGED <<instanceVars, msg, processed, pending, streamVars, dbVars,
                   stopHist, envVars>>
    /\ UNCHANGED callVars
    /\ UNCHANGED concVars

\* PollNone that polls again without going back to the loop condition.
PollNoneRepolls(p) ==
    /\ PollStarts(p)
    /\ consumer[p] = "open"
    /\ pc' = [pc EXCEPT ![p] = "poll"]
    /\ UNCHANGED <<instanceVars, frameVars, streamVars, dbVars, stopHist, envVars>>
    /\ UNCHANGED callVars
    /\ UNCHANGED concVars

\* PollNone that counts the empty cycle as an error.
PollNoneCounts(p) ==
    /\ PollStarts(p)
    /\ consumer[p] = "open"
    /\ msg' = [msg EXCEPT ![p] = NoMsg]
    /\ error_count' = [error_count EXCEPT ![p] = @ + 1]
    /\ pc' = [pc EXCEPT ![p] = "loop"]
    /\ UNCHANGED <<running, consumer, processed_count, metrics, processed,
                   pending, exc, streamVars, dbVars, stopHist, envVars>>
    /\ UNCHANGED callVars
    /\ UNCHANGED concVars

\* poll() times out, msg is None: continue
PollNone(p) ==
    /\ PollStarts(p)
    /\ consumer[p] = "open"
    /\ msg' = [msg EXCEPT ![p] = NoMsg]
    /\ pc' = [pc EXCEPT ![p] = "loop"]
    /\ UNCHANGED <<instanceVars, processed, pending, exc, streamVars, dbVars,
                   stopHist, envVars>>
    /\ UNCHANGED callVars
    /\ UNCHANGED concVars

\* msg.error().code() == KafkaError._PARTITION_EOF: continue
PollEOF(p) ==
    /\ PollStarts(p)
    /\ consumer[p] = "open"
    /\ msg' = [msg EXCEPT ![p] = EofMsg]
    /\ pc' = [pc EXCEPT ![p] = "loop"]
    /\ UNCHANGED <<instanceVars, processed, pending, exc, streamVars, dbVars,
                   stopHist, envVars>>
    /\ UNCHANGED callVars
    /\ UNCHANGED concVars

\* any other msg.error(): raise KafkaException(msg.error())
PollError(p) ==
    /\ PollStarts(p)
    /\ consumer[p] = "open"
    /\ Event(p)
    /\ pc' = [pc EXCEPT ![p] = "finally"]
    /\ exc' = [exc EXCEPT ![p] = "KafkaException"]
    /\ UNCHANGED <<instanceVars, msg, processed, pending, streamVars, dbVars,
                   stopHist, mode, stopper>>
    /\ UNCHANGED callVars
    /\ UNCHANGED concVars

\* poll() returns a record: process_message(msg) starts.
PollMsg(p) ==
    /\ PollStarts(p)
    /\ consumer[p] = "open"
    /\ Event(p)
    /\ \E m \in Msgs : msg' = [msg EXCEPT ![p] = m]
    /\ processed' = [processed EXCEPT ![p] = NoRec]
    /\ inserted' = [inserted EXCEPT ![p] = FALSE]
    /\ pc' = [pc EXCEPT ![p] = "pm_decode"]
    /\ UNCHANGED <<instanceVars, pending, exc, streamVars, posts, storeOk,
                   storeDone, stopHist, mode, stopper>>
    /\ UNCHANGED callVars
    /\ UNCHANGED concVars

\* ProcessFails without the except clause: the exception leaves run().
ProcessFailsPropagates(p) ==
    /\ pc' = [pc EXCEPT ![p] = "finally"]
    /\ exc' = [exc EXCEPT ![p] = "Exception"]
    /\ UNCHANGED <<instanceVars, msg, processed, pending, streamVars, dbVars,
                   stopHist, clearHist, envVars>>

\* process_message, "except Exception": count the error, return None; run()
\* skips the record ("if processed:") and loops.
ProcessFails(p) ==
    /\ error_count' = [error_count EXCEPT ![p] = @ + 1]
    /\ pc' = [pc EXCEPT ![p] = "loop"]
    /\ UNCHANGED <<running, consumer, processed_count, metrics, frameVars,
                   streamVars, dbVars, stopHist, clearHist, envVars>>

\* process_message, lines 66-77: decode the payload, read the fields.
Decode(p) ==
    /\ pc[p] = "pm_decode"
    /\ IF ~Decodes(msg[p])
       THEN ProcessFails(p)
       ELSE /\ pc' = [pc EXCEPT ![p] =
                   IF CreatedIsStr(msg[p]) THEN "pm_fromiso" ELSE "pm_nlp"]
            /\ UNCHANGED <<instanceVars, frameVars, streamVars, dbVars,
                           stopHist, clearHist, envVars>>
    /\ UNCHANGED callVars
    /\ UNCHANGED concVars

\* process_message, lines 78-81: datetime.fromisoformat under a bare except.
FromIso(p) ==
    /\ pc[p] = "pm_fromiso"
    /\ pc' = [pc EXCEPT ![p] = "pm_nlp"]
    /\ UNCHANGED <<instanceVars, frameVars, streamVars, dbVars, stopHist,
                   clearHist, envVars>>
    /\ UNCHANGED callVars
    /\ UNCHANGED concVars

\* process_message, lines 85-120: the enrichment, then the processed dict.
Enrich(p) ==
    /\ pc[p] = "pm_nlp"
    /\ IF EnrichRaises(msg[p])
       THEN ProcessFails(p)
       ELSE /\ processed' = [processed EXCEPT ![p] = Processed(msg[p])]
            /\ pc' = [pc EXCEPT ![p] = "store_query"]
            /\ UNCHANGED <<instanceVars, msg, pending, exc, streamVars, dbVars,
                           stopHist, clearHist, envVars>>
    /\ UNCHANGED callVars
    /\ UNCHANGED concVars

(***************************************************************************)
(* store_post -> Database.insert_posts_batch -> Database.insert_post, in a *)
(* session that commits when the batch is done.                            *)
(***************************************************************************)

\* Existing with the filter left out of the query: first() returns any row.
ExistingAnyRow(e) == Len(posts) > 0

\* session.query(Post).filter_by(external_id=...).first()
Existing(e) == \E i \in DOMAIN posts : posts[i].external_id = e

\* A table whose external_id column carries no unique constraint.
UniqueViolationOff(e) == FALSE

\* Post.external_id is declared unique=True: the INSERT of a second row with
\* the same external_id fails at commit.
UniqueViolation(e) == \E i \in DOMAIN posts : posts[i].external_id = e

\* Post(**post_data) as the table stores it (id is the autoincrement key).
Row(rec) == [id |-> Len(posts) + 1, external_id |-> rec.external_id,
             title |-> rec.title]

\* store_post returns (it never raises: it catches Exception).
StoreReturns(p, ok) ==
    /\ storeDone' = storeDone \cup {processed[p].external_id}
    /\ storeOk' = IF ok THEN storeOk \cup {processed[p].external_id} ELSE storeOk
    /\ pending' = [pending EXCEPT ![p] = FALSE]
    /\ pc' = [pc EXCEPT ![p] = "publish"]

\* The database raises (locked, unreachable, a value it cannot bind): the
\* session rolls back and re-raises, store_post prints and returns.
StoreFails(p) ==
    /\ pc[p] \in {"store_query", "store_commit"}
    /\ StoreReturns(p, FALSE)
    /\ UNCHANGED <<instanceVars, msg, processed, exc, streamVars, posts,
                   inserted, stopHist, clearHist, envVars>>
    /\ UNCHANGED callVars
    /\ UNCHANGED concVars

\* insert_post: return None when the external_id is stored already, else
\* session.add(post).
StoreQuery(p) ==
    /\ pc[p] = "store_query"
    /\ pending' = [pending EXCEPT ![p] = ~Existing(processed[p].external_id)]
    /\ pc' = [pc EXCEPT ![p] = "store_commit"]
    /\ UNCHANGED <<instanceVars, msg, processed, exc, streamVars, dbVars,
                   stopHist, clearHist, envVars>>
    /\ UNCHANGED callVars
    /\ UNCHANGED concVars

\* StoreCommit that writes the new fields over the stored Post when the
\* external_id is stored already.
StoreCommitOverwrites(p) ==
    /\ pc[p] = "store_commit"
    /\ StoreReturns(p, TRUE)
    /\ posts' = IF pending[p] THEN Append(posts, Row(processed[p]))
                ELSE [i \in DOMAIN posts |->
                        IF posts[i].external_id = processed[p].external_id
                        THEN [posts[i] EXCEPT !.title = processed[p].title]
                        ELSE posts[i]]
    /\ inserted' = [inserted EXCEPT ![p] = pending[p]]
    /\ UNCHANGED <<instanceVars, msg, processed, exc, streamVars, stopHist,
                   clearHist, envVars>>
    /\ UNCHANGED callVars
    /\ UNCHANGED concVars

\* session.commit(): the INSERT, if a Post was added.
StoreCommit(p) ==
    /\ pc[p] = "store_commit"
    /\ IF pending[p] /\ UniqueViolation(processed[p].external_id)
       THEN /\ StoreReturns(p, FALSE)
            /\ UNCHANGED <<posts, inserted>>
       ELSE /\ StoreReturns(p, TRUE)
            /\ posts' = IF pending[p] THEN Append(posts, Row(processed[p])) ELSE posts
            /\ inserted' = [inserted EXCEPT ![p] = pending[p]]
    /\ UNCHANGED <<instanceVars, msg, processed, exc, streamVars, stopHist,
                   clearHist, envVars>>
    /\ UNCHANGED callVars
    /\ UNCHANGED concVars

(***************************************************************************)
(* producer.publish_processed -> KafkaProducerClient.publish               *)
(***************************************************************************)

\* publish adds _published_at and _topic, then json.dumps(value): TypeError
\* when the value is not serializable, which nothing in run() catches.  Only
\* when publish returns does run() go on to check_alerts and the metrics
\* (positions "alerts" and "metrics").
Publish(p) ==
    /\ pc[p] = "publish"
    /\ IF JsonSerializable(processed[p])
       THEN /\ outStream' = Append(outStream, processed[p].external_id)
            /\ pc' = [pc EXCEPT ![p] = "alerts"]
            /\ UNCHANGED exc
       ELSE /\ pc' = [pc EXCEPT ![p] = "finally"]
            /\ exc' = [exc EXCEPT ![p] = "TypeError"]
            /\ UNCHANGED outStream
    /\ UNCHANGED <<instanceVars, msg, processed, pending, alertStream, dbVars,
                   stopHist, clearHist, envVars>>
    /\ UNCHANGED callVars
    /\ UNCHANGED concVars

\* finally: self.stop().  Then run() returns or the exception propagates; a
\* process started by main() ends either way.
Finally(p) ==
    /\ pc[p] = "finally"
    /\ \E o \in CloseOutcomes(p) :
        /\ StopClear(p)
        /\ StopClose(p, o)
        /\ exc' = [exc EXCEPT ![p] = IF CloseRaises(p, o) THEN "RuntimeError" ELSE @]
    /\ pc' = [pc EXCEPT ![p] = IF mode[p] = "main" THEN "exited" ELSE "idle"]
    /\ UNCHANGED <<processed_count, error_count, metrics, msg, processed,
                   pending, streamVars, dbVars, reconnected, pollsAfterClear,
                   envVars>>
    /\ UNCHANGED callVars
    /\ UNCHANGED concVars

Next ==
    \E p \in Procs :
        \/ Main(p)
        \/ Construct(p)
        \/ Connect(p)
        \/ Run(p)
        \/ StopBegin(p)
        \/ StopEnd(p)
        \/ Signal(p)
        \/ Interrupt(p)
        \/ Kill(p)
        \/ LoopCheck(p)
        \/ PollClosed(p)
        \/ PollNone(p)
        \/ PollEOF(p)
        \/ PollError(p)
        \/ PollMsg(p)
        \/ Decode(p)
        \/ FromIso(p)
        \/ Enrich(p)
        \/ StoreFails(p)
        \/ StoreQuery(p)
        \/ StoreCommit(p)
        \/ Publish(p)
        \/ Finally(p)

Spec == Init /\ [][Next]_vars

\* The number of external events (process starts, deliveries) per processor
\* when two processors run side by side.
MaxPairEvents == 4

\* Two processors started by main() that consume the same records and write
\* to the same table, each running its loop until run() ends.
PairNext ==
    \E p \in Procs :
        \/ events[p] < MaxPairEvents /\ Main(p)
        \/ LoopCheck(p)
        \/ PollNone(p)
        \/ events[p] < MaxPairEvents /\ PollMsg(p)
        \/ Decode(p)
        \/ FromIso(p)
        \/ Enrich(p)
        \/ StoreFails(p)
        \/ StoreQuery(p)
        \/ StoreCommit(p)
        \/ Publish(p)
        \/ Finally(p)

PairSpec == InitWith(Procs) /\ [][PairNext]_vars

\* The steps of the thread that executes run().
LoopStep(p) ==
    \/ LoopCheck(p)
    \/ PollClosed(p)
    \/ PollNone(p)
    \/ PollEOF(p)
    \/ PollError(p)
    \/ PollMsg(p)
    \/ Decode(p)
    \/ FromIso(p)
    \/ Enrich(p)
    \/ StoreFails(p)
    \/ StoreQuery(p)
    \/ StoreCommit(p)
    \/ Publish(p)
    \/ Finally(p)

\* The thread in run() keeps executing: every call it makes returns or raises
\* (poll within its one-second timeout).
FairSpec == Spec /\ \A p \in Procs : WF_vars(LoopStep(p))

(***************************************************************************)
(* Storage idempotence                                                     *)
(***************************************************************************)

Count(e) == Cardinality({i \in DOMAIN posts : posts[i].external_id = e})

\* C1, as stated: every external_id whose record was enriched and handed to
\* store_post has exactly one stored Post.
C1_ExactlyOnePerEnriched == \A e \in storeDone : Count(e) = 1

\* C1, amended: under any sequence of deliveries and restarts no two stored
\* Posts share an external_id, and an external_id whose store_post completed
\* without a database error has exactly one Post.
C1_AtMostOnePerExternalId ==
    /\ \A i, j \in DOMAIN posts :
           posts[i].external_id = posts[j].external_id => i = j
    /\ \A e \in storeOk : Count(e) = 1

\* A record redelivered to a restarted process: its external_id is stored
\* already, this iteration's store_post has returned and inserted nothing.
C1_RedeliveredAfterRestart ==
    \E p \in Procs :
        /\ pc[p] = "publish"
        /\ ~inserted[p]
        /\ processed[p].external_id \in storeOk
        /\ Count(processed[p].external_id) = 1
        /\ Len(posts) = 2

(***************************************************************************)
(* The republish step                                                      *)
(***************************************************************************)

\* C2: the record process_message returns is JSON-serializable, so the
\* republish never raises and never ends the loop.
C2_RepublishNeverRaises ==
    \A p \in Procs :
        /\ pc[p] = "publish" => JsonSerializable(processed[p])
        /\ exc[p] # "TypeError"

(***************************************************************************)
(* Records that cannot be processed                                        *)
(***************************************************************************)

\* The record process_message is working on makes the step it is at raise.
Raising(p) ==
    \/ pc[p] = "pm_decode" /\ ~Decodes(msg[p])
    \/ pc[p] = "pm_nlp" /\ EnrichRaises(msg[p])

\* C3: when decoding or enrichment raises for a record, that step adds exactly
\* 1 to error_count, writes nothing to the store, the output stream or the
\* alert stream, leaves processed_count and the metrics alone, and puts the
\* loop back at its condition with the running flag and the consumer as they
\* were: the record is not retried.
C3_FailureCountedAndDropped ==
    [][\A p \in Procs :
          (/\ Raising(p)
           /\ events' = events
           /\ stopper' = stopper
           /\ <<pc[p], error_count[p], exc[p]>>' # <<pc[p], error_count[p], exc[p]>>)
          => /\ error_count'[p] = error_count[p] + 1
             /\ pc'[p] = "loop"
             /\ posts' = posts
             /\ outStream' = outStream
             /\ alertStream' = alertStream
             /\ processed_count' = processed_count
             /\ metrics' = metrics
             /\ running' = running
             /\ consumer' = consumer
             /\ exc' = exc]_vars

\* Two records were dropped, the last one by the enrichment, and the loop has
\* passed its condition again.
C3_DroppedAndPollingAgain ==
    \E p \in Procs :
        /\ pc[p] = "poll"
        /\ error_count[p] = 2
        /\ Decodes(msg[p]) /\ EnrichRaises(msg[p])
        /\ posts = <<>>

\* A record that lacks one of the fields the inbound contract requires.
MissingRequired(m) ==
    /\ Decodes(m)
    /\ \/ m.id = Missing
       \/ m.source = Missing
       \/ m.title = Missing

\* C4: a record that decodes to an object but lacks id, source or title never
\* gets past process_message: no storage write, no republish, no alert.
C4_MissingFieldsDropped ==
    \A p \in Procs :
        pc[p] \in {"store_query", "store_commit", "publish", "alerts", "metrics"}
            => ~MissingRequired(msg[p])

(***************************************************************************)
(* Transport errors and metrics                                            *)
(***************************************************************************)

\* C5: after poll has returned a transport error the processor is still in
\* its loop with the running flag set.
C5_TransportErrorKeepsRunning ==
    \A p \in Procs :
        exc[p] = "KafkaException" => pc[p] \in LoopPcs /\ running[p]

\* C6: metrics['errors'] equals error_count in every state.
C6_MetricsErrorsIsErrorCount ==
    \A p \in Procs : metrics[p].errors = error_count[p]

(***************************************************************************)
(* Shutdown                                                                *)
(***************************************************************************)

\* C7: when main's signal handler has shut the process down (it ends with the
\* handler's SystemExit), the final statistics were logged once and the
\* consumer was closed once.
C7_SignalShutdownLogsOnce ==
    \A p \in Procs :
        (pc[p] = "exited" /\ exc[p] = "SystemExit")
            => statsLogged[p] = 1 /\ closeCalls[p] = 1

\* The loop passes its condition: a new poll cycle begins.
PassesCheck(p) == pc[p] = "loop" /\ pc'[p] = "poll"

\* C8, as stated: once stop() has been called on an instance, nothing makes
\* it begin a poll cycle again.
C8_StoppedIsTerminal ==
    [][\A p \in Procs : stopCalled[p] # "no" => ~PassesCheck(p)]_vars

\* C8, amended: once stop() has been called on an instance that has a
\* consumer, it begins no poll cycle again unless connect() is called on it:
\* run() alone does not reconnect.
C8_StoppedUntilConnect ==
    [][\A p \in Procs :
          (stopCalled[p] = "connected" /\ ~reconnected[p]) => ~PassesCheck(p)]_vars

\* run() was called again on a stopped instance and is at its loop condition
\* with the flag cleared.
C8_RunAfterStop ==
    \E p \in Procs :
        /\ pc[p] = "loop"
        /\ stopCalled[p] = "connected"
        /\ closeCalls[p] > 0
        /\ ~reconnected[p]
        /\ clearedAt[p] = "none"
        /\ ~running[p]

Published(e) == \E i \in DOMAIN outStream : outStream[i] = e

\* C9: when the stop signal has ended the loop, the record the loop was
\* working on is not stored without having been republished.
C9_StopOnlyAtPollBoundary ==
    \A p \in Procs :
        (pc[p] \in {"finally", "exited"} /\ exc[p] = "SystemExit" /\ inserted[p])
            => Published(processed[p].external_id)

\* C10: once the flag is cleared while run() is looping, at most one more
\* poll starts, and run() ends.
C10_StopEndsRun ==
    /\ [](\A p \in Procs : pollsAfterClear[p] <= 1)
    /\ \A p \in Procs : (clearedAt[p] # "none" /\ InRun(p)) ~> ~InRun(p)

\* stop() cleared the flag between the loop condition and the poll; that one
\* poll started, and run() has returned.
C10_OneMorePollThenReturned ==
    \E p \in Procs :
        /\ clearedAt[p] = "poll"
        /\ pollsAfterClear[p] = 1
        /\ pc[p] = "idle"

(***************************************************************************)
(* Leaving run()                                                           *)
(***************************************************************************)

\* C11: whenever run() stops looping and returns or propagates an exception
\* (its finally block has run), the consumer is closed.
C11_ClosedWhenRunEnds ==
    [][\A p \in Procs :
          (/\ pc[p] = "finally"
           /\ pc'[p] \in {"idle", "exited"}
           /\ exc'[p] # "killed")
          => consumer'[p] = "closed" /\ closeCalls'[p] >= 1]_vars

\* run() has propagated the KafkaException of a transport error to its
\* caller, and the consumer was closed on the way.
C11_ClosedAfterTransportError ==
    \E p \in Procs :
        /\ pc[p] = "idle"
        /\ exc[p] = "KafkaException"
        /\ consumer[p] = "closed"
        /\ closeCalls[p] = 1

(***************************************************************************)
(* The steps after the enrichment                                          *)
(***************************************************************************)

\* The storage write of the record the loop is working on failed (and no
\* write for its external_id ever succeeded).
StoreFailed(p) ==
    /\ processed[p] # NoRec
    /\ processed[p].external_id \in storeDone \ storeOk

\* C12: after the storage write failed for an enriched record, the loop's
\* next step republishes the record and goes on to evaluate the alerts: the
\* loop does not end.
C12_StoreFailureDoesNotStopRecord ==
    [][\A p \in Procs :
          (/\ pc[p] = "publish"
           /\ StoreFailed(p)
           /\ events' = events
           /\ pc'[p] # "publish")
          => /\ pc'[p] = "alerts"
             /\ exc'[p] = "none"]_vars

\* The positions of run() between process_message's return and the next
\* loop condition.
RecordSteps == {"store_query", "store_commit", "publish", "alerts", "metrics"}

\* C13: when the loop itself leaves the steps of an enriched record, it goes
\* back to its condition for the next poll, and by then the record's storage
\* write was attempted and the record was republished.
C13_StoredRepublishedBeforeNextPoll ==
    [][\A p \in Procs :
          (/\ pc[p] \in RecordSteps
           /\ pc'[p] \notin RecordSteps
           /\ events' = events)
          => /\ pc'[p] = "loop"
             /\ processed[p].external_id \in storeDone'
             /\ \E i \in DOMAIN outStream' :
                    outStream'[i] = processed[p].external_id]_vars

\* C14: a poll that returns no message (a timeout; the end of a partition is
\* handled the same way) changes nothing but the loop's position:
\* processed_count, error_count, the metrics, the store, the output stream
\* and the alert stream, the running flag and the consumer are as before.
C14_EmptyPollNoSideEffects ==
    [][\A p \in Procs :
          (pc[p] = "poll" /\ pc'[p] = "loop")
          => /\ processed_count' = processed_count
             /\ error_count' = error_count
             /\ metrics' = metrics
             /\ posts' = posts
             /\ outStream' = outStream
             /\ alertStream' = alertStream
             /\ running'[p] = running[p]
             /\ consumer'[p] = consumer[p]]_vars

\* A poll has timed out in a process that had counted an error, with a Post
\* in the store: msg is None and the loop is back at its condition.
C14_TimedOutAfterWork ==
    \E p \in Procs :
        /\ pc[p] = "loop"
        /\ msg[p] = NoMsg
        /\ error_count[p] = 1
        /\ Len(posts) = 1

(***************************************************************************)
(* The enrichment pipeline (nlp/pipeline.py) and check_alerts, called on   *)
(* their own.  Python floats are modelled by exact fractions n/d (d > 0);  *)
(* the values a result carries after round(x, 3) are integers in           *)
(* thousandths.                                                            *)
(***************************************************************************)

\* Words a title may be made of, and the most there are of them.
MaxTitleWords == 2

\* Words a text handed to extract_keywords may be made of.
MaxKeywordWords == 5

\* Words a text handed to extract_topics may be made of.
MaxTopicWords == 3

RECURSIVE GCD(_, _)
GCD(a, b) == IF b = 0 THEN a ELSE GCD(b, a % b)

Abs(x) == IF x < 0 THEN -x ELSE x

Rat(n, d) == LET g == GCD(Abs(n), d) IN [n |-> n \div g, d |-> d \div g]

RatAdd(a, b) == Rat(a.n * b.d + b.n * a.d, a.d * b.d)
RatLeq(a, b) == a.n * b.d <= b.n * a.d
RatMin(a, b) == IF RatLeq(a, b) THEN a ELSE b

RECURSIVE RatSum(_)
RatSum(fs) == IF fs = <<>> THEN Rat(0, 1) ELSE RatAdd(Head(fs), RatSum(Tail(fs)))

\* round(x, 3), in thousandths.  A value exactly halfway between two
\* thousandths has no exact double: which neighbour round() returns depends
\* on the double nearest to it, so both are possible.
Round3(x) ==
    LET lo == (1000 * x.n) \div x.d
        r2 == 2 * ((1000 * x.n) % x.d)
    IN  IF r2 < x.d THEN {lo}
        ELSE IF r2 > x.d THEN {lo + 1}
        ELSE {lo, lo + 1}

LongWord == "pneumonoultramicroscopicsilicovolcanoconiosis"

TitleWords == {"You", "new", "how", "good", "bad", "launch?", LongWord}
KeywordWords == {"ai", "ml", "rust", "Java!", "http://x.io", "the"}

SeqsUpTo(S, n) == UNION {[1..k -> S] : k \in 0..n}

Titles == SeqsUpTo(TitleWords, MaxTitleWords)
Bodies == {<<>>, <<"You", "new", "how", "new", "bad">>}
Scores == {-1000, 0, 36, 150, 2000}
Comments == {0, 8, 9}
\* age_hours, in tenths of an hour
Ages10 == {0, 5, 10}
\* VADER_AVAILABLE, and the compound score (in ten-thousandths: VADER rounds
\* it to 4 decimals) its lexicon gives a text
Backends == {"vader", "fallback"}
VaderCompounds == {-496, 496, 8000}

\* str.lower()
Lower(w) ==
    CASE w = "You" -> "you"
      [] w = "Java!" -> "java!"
      [] w = "Rust" -> "rust"
      [] OTHER -> w

\* f"{title} {body}".lower().split(): the words of the text
Words(title, body) ==
    LET t == title \o body IN [i \in DOMAIN t |-> Lower(t[i])]

\* len(title): the words and the blanks between them
RECURSIVE TitleLen(_)
TitleLen(title) ==
    IF title = <<>> THEN 0
    ELSE IF Len(title) = 1 THEN Len(title[1])
    ELSE Len(Head(title)) + 1 + TitleLen(Tail(title))

POSITIVE_WORDS ==
    {"good", "great", "awesome", "amazing", "excellent", "love", "best",
     "happy", "wonderful", "fantastic", "beautiful", "perfect", "nice",
     "brilliant", "outstanding", "superb", "incredible", "exciting",
     "breakthrough", "innovative", "revolutionary", "success", "win"}

NEGATIVE_WORDS ==
    {"bad", "terrible", "awful", "horrible", "hate", "worst", "poor",
     "sad", "disappointing", "failure", "crash", "crisis", "disaster",
     "scam", "fraud", "broke", "dead", "dying", "killed", "threat",
     "dangerous", "toxic", "evil", "corrupt", "lawsuit", "fired"}

ENGAGEMENT_WORDS ==
    {"you", "your", "free", "new", "now", "how", "why", "best",
     "top", "first", "exclusive", "limited", "easy", "simple"}

STOPWORDS ==
    {"the", "a", "an", "is", "are", "was", "were", "be", "been", "being",
     "have", "has", "had", "do", "does", "did", "will", "would", "could",
     "should", "may", "might", "must", "shall", "can", "to", "of", "in",
     "for", "on", "with", "at", "by", "from", "as", "into", "through",
     "during", "before", "after", "above", "below", "between", "under",
     "again", "further", "then", "once", "here", "there", "when", "where",
     "why", "how", "all", "each", "few", "more", "most", "other", "some",
     "such", "no", "nor", "not", "only", "own", "same", "so", "than",
     "too", "very", "just", "and", "but", "if", "or", "because", "until",
     "while", "this", "that", "these", "those", "i", "you", "he", "she",
     "it", "we", "they", "what", "which", "who", "whom", "its", "his",
     "her", "their", "my", "your", "our", "about", "get", "got", "like",
     "know", "think", "make", "see", "look", "want", "give", "use", "find",
     "tell", "ask", "work", "seem", "feel", "try", "leave", "call", "http",
     "https", "www", "com", "org", "reddit", "deleted", "removed"}

CountIn(ws, S) == Cardinality({i \in DOMAIN ws : ws[i] \in S})

(***************************************************************************)
(* SentimentAnalyzer                                                       *)
(***************************************************************************)

\* _fallback_sentiment: (pos - neg) / (pos + neg), 0.0 without such words
FallbackSentiment(ws) ==
    LET pos_count == CountIn(ws, POSITIVE_WORDS)
        neg_count == CountIn(ws, NEGATIVE_WORDS)
        total == pos_count + neg_count
    IN  IF total = 0 THEN Rat(0, 1) ELSE Rat(pos_count - neg_count, total)

\* The compound scores the backend can give the text.
Compounds(ws, backend) ==
    IF ws = <<>> THEN {Rat(0, 1)}
    ELSE IF backend = "vader" THEN {Rat(c, 10000) : c \in VaderCompounds}
    ELSE {FallbackSentiment(ws)}

\* SentimentAnalyzer.analyze: the label of a compound score
SentimentLabel(compound) ==
    IF RatLeq(Rat(5, 100), compound) THEN "positive"
    ELSE IF RatLeq(compound, Rat(-5, 100)) THEN "negative"
    ELSE "neutral"

(***************************************************************************)
(* TopicExtractor.extract_keywords                                         *)
(***************************************************************************)

\* What the two re.sub calls, lower() and split() leave of one word: a URL
\* is removed, every character that is not alphanumeric becomes a blank.
CleanWord(w) ==
    CASE w = "http://x.io" -> <<>>
      [] w = "Java!" -> <<"java">>
      [] w = "launch?" -> <<"launch">>
      [] OTHER -> <<Lower(w)>>

RECURSIVE Clean(_)
Clean(text) ==
    IF text = <<>> THEN <<>> ELSE CleanWord(Head(text)) \o Clean(Tail(text))

\* Kept without the length condition.
KeptAnyLength(w) == w \notin STOPWORDS

\* w not in self.STOPWORDS and len(w) > 2
Kept(w) == w \notin STOPWORDS /\ Len(w) > 2

Filtered(ws) == SelectSeq(ws, Kept)

Range(ws) == {ws[i] : i \in DOMAIN ws}

FirstIndex(w, ws) == CHOOSE i \in DOMAIN ws : ws[i] = w /\ \A j \in 1..(i - 1) : ws[j] # w

\* MostCommonBefore with equal counts in the reverse of the insertion order.
MostCommonBeforeLastFirst(u, v, ws) ==
    \/ CountIn(ws, {u}) > CountIn(ws, {v})
    \/ CountIn(ws, {u}) = CountIn(ws, {v}) /\ FirstIndex(u, ws) > FirstIndex(v, ws)

\* Counter.most_common orders by count, descending; the sort is stable, so
\* equal counts stay in insertion order (the order of first occurrence).
MostCommonBefore(u, v, ws) ==
    \/ CountIn(ws, {u}) > CountIn(ws, {v})
    \/ CountIn(ws, {u}) = CountIn(ws, {v}) /\ FirstIndex(u, ws) < FirstIndex(v, ws)

MostCommon(ws, top_n) ==
    LET rank(u) == 1 + Cardinality({v \in Range(ws) : v # u /\ MostCommonBefore(v, u, ws)})
        k == IF top_n < Cardinality(Range(ws)) THEN top_n ELSE Cardinality(Range(ws))
    IN  [r \in 1..k |-> CHOOSE u \in Range(ws) : rank(u) = r]

extract_keywords(text, top_n) == MostCommon(Filtered(Clean(text)), top_n)

(***************************************************************************)
(* TopicExtractor.extract_topics                                           *)
(***************************************************************************)

TopicWords == {"Rust", "said", "bitcoin", "interest", "rate", "hello"}

\* The topic categories and their trigger phrases, in declaration order.
TOPIC_PATTERNS ==
    <<
       [topic |-> "AI/ML", keywords |->
           {"ai", "artificial intelligence", "machine learning", "ml",
            "gpt", "chatgpt", "llm", "neural", "deep learning",
            "openai", "anthropic"}],
       [topic |-> "Crypto", keywords |->
           {"bitcoin", "btc", "ethereum", "eth", "crypto",
            "blockchain", "nft", "defi", "web3", "token", "coin"}],
       [topic |-> "Finance", keywords |->
           {"stock", "market", "invest", "trading", "fed",
            "inflation", "recession", "economy", "bank",
            "interest rate"}],
       [topic |-> "Tech Industry", keywords |->
           {"google", "apple", "microsoft", "amazon", "meta",
            "facebook", "twitter", "startup", "layoff", "hiring",
            "ipo"}],
       [topic |-> "Programming", keywords |->
           {"python", "javascript", "rust", "golang", "react", "api",
            "framework", "database", "cloud", "aws", "developer"}],
       [topic |-> "Politics", keywords |->
           {"election", "congress", "senate", "president", "democrat",
            "republican", "vote", "policy", "government", "law"}],
       [topic |-> "Science", keywords |->
           {"research", "study", "scientist", "discovery", "nasa",
            "space", "climate", "physics", "biology", "medical"}],
       [topic |-> "Gaming", keywords |->
           {"game", "gaming", "playstation", "xbox", "nintendo",
            "steam", "esports", "gamer", "console", "pc gaming"}]
    >>

\* The text as one string: the words with a blank between them.
RECURSIVE Join(_)
Join(ws) ==
    IF ws = <<>> THEN ""
    ELSE IF Len(ws) = 1 THEN ws[1]
    ELSE Head(ws) \o " " \o Join(Tail(ws))

\* kw in text
Contains(text, kw) ==
    \E i \in 1..(Len(text) - Len(kw) + 1) : SubSeq(text, i, i + Len(kw) - 1) = kw

\* any(kw in text_lower for kw in keywords)
TopicMatches(t, text_lower) == \E kw \in t.keywords : Contains(text_lower, kw)

\* extract_topics without the fallback.
extract_topics_no_fallback(ws) ==
    LET text_lower == Join([i \in DOMAIN ws |-> Lower(ws[i])])
        Matched(t) == TopicMatches(t, text_lower)
        topics == SelectSeq(TOPIC_PATTERNS, Matched)
    IN  [i \in DOMAIN topics |-> topics[i].topic]

\* extract_topics: the topics that match, in the order of the table, or
\* ["General"]
extract_topics(ws) ==
    LET text_lower == Join([i \in DOMAIN ws |-> Lower(ws[i])])
        Matched(t) == TopicMatches(t, text_lower)
        topics == SelectSeq(TOPIC_PATTERNS, Matched)
    IN  IF topics = <<>> THEN <<"General">>
        ELSE [i \in DOMAIN topics |-> topics[i].topic]

(***************************************************************************)
(* ViralPredictor.predict                                                  *)
(***************************************************************************)

\* VIRAL_PATTERNS, numbered in the order of the list.
VIRAL_PATTERNS == 1..8

\* re.search(pattern, title.lower()) for a title made of TitleWords: "?" at
\* the end, an opener at the start, a novelty word anywhere.  The other
\* patterns match none of these titles.
PatternMatches(pat, title) ==
    CASE pat = 1 -> title # <<>> /\ title[Len(title)] = "launch?"
      [] pat = 2 -> title # <<>> /\ Lower(title[1]) = "how"
      [] pat = 4 -> \E i \in DOMAIN title : Lower(title[i]) \in {"new", "launch?"}
      [] OTHER -> FALSE

\* EngagementFeature as the share of the words that are engagement words,
\* divided by 5.
EngagementFeatureDensity(ws) ==
    IF ws = <<>> THEN Rat(0, 1)
    ELSE RatMin(Rat(CountIn(ws, ENGAGEMENT_WORDS), 5 * Len(ws)), Rat(1, 1))

\* min(eng_count / 5, 1.0)
EngagementFeature(ws) == RatMin(Rat(CountIn(ws, ENGAGEMENT_WORDS), 5), Rat(1, 1))

\* The six features, in the order predict appends them.
Features(title, body, score, num_comments, age10) ==
    LET pattern_score == Cardinality({pat \in VIRAL_PATTERNS : PatternMatches(pat, title)})
        title_len == TitleLen(title)
    IN  << RatMin(Rat(pattern_score, 3), Rat(1, 1)),
           EngagementFeature(Words(title, body)),
           IF 60 <= title_len /\ title_len <= 100 THEN Rat(1, 1)
           ELSE IF 40 <= title_len /\ title_len <= 120 THEN Rat(7, 10)
           ELSE Rat(3, 10),
           IF age10 > 0 THEN RatMin(Rat(10 * score, 50 * age10), Rat(1, 1))
           ELSE Rat(1, 2),
           IF score > 0 THEN RatMin(Rat(2 * num_comments, score), Rat(1, 1))
           ELSE Rat(1, 2),
           IF score > 1000 THEN Rat(1, 1)
           ELSE IF score > 100 THEN Rat(7, 10)
           ELSE IF score > 10 THEN Rat(4, 10)
           ELSE Rat(2, 10) >>

\* sum(features) / len(features)
ViralScore(features) ==
    LET total == RatSum(features) IN Rat(total.n, total.d * Len(features))

\* The engagement label of the float viral_score.  Where the exact mean is a
\* threshold itself, the float sum can fall on either side of it.
Engagements(viral_score) ==
    (IF RatLeq(Rat(7, 10), viral_score) THEN {"high"}
     ELSE IF RatLeq(Rat(4, 10), viral_score) THEN {"medium"}
     ELSE {"low"})
    \cup (IF viral_score = Rat(7, 10) THEN {"medium"} ELSE {})
    \cup (IF viral_score = Rat(4, 10) THEN {"low"} ELSE {})

\* What predict can return.
Predict(title, body, score, num_comments, age10) ==
    LET features == Features(title, body, score, num_comments, age10)
        viral_score == ViralScore(features)
    IN  {[fn |-> "predict", features |-> features, viral_score |-> viral_score,
          engagement |-> e] : e \in Engagements(viral_score)}

(***************************************************************************)
(* NLPPipeline.analyze                                                     *)
(***************************************************************************)

\* What analyze can return (topics and entities left out): the labels are
\* those of the unrounded scores, the scores are rounded to 3 decimals.
Analyze(title, body, score, num_comments, age10, backend) ==
    UNION {
      UNION {
        {[fn |-> "analyze",
          sentiment_score |-> ss,
          sentiment_label |-> SentimentLabel(compound),
          keywords |-> extract_keywords(title \o body, 10),
          viral_score |-> vs,
          engagement_prediction |-> pr.engagement]
           : ss \in Round3(compound), vs \in Round3(pr.viral_score)}
        : pr \in Predict(title, body, score, num_comments, age10)}
      : compound \in Compounds(Words(title, body), backend)}

(***************************************************************************)
(* StreamProcessor.check_alerts                                            *)
(***************************************************************************)

\* The scores of the records check_alerts is called with, in thousandths.
ViralScores == {0, 500, 799, 800, 810, 1000}
SentimentScores == {-1000, -900, -800, -799, 0, 200, 799, 800, 1000}

\* CheckAlerts with "elif" for the second condition.
CheckAlertsElif(post) ==
    IF post.viral_score >= 800
    THEN <<[type |-> "viral", score |-> post.viral_score]>>
    ELSE IF Abs(post.sentiment_score) >= 800
    THEN <<[type |-> "sentiment_spike", score |-> post.sentiment_score]>>
    ELSE <<>>

\* The alerts check_alerts publishes for a record, in order (publish_alert
\* serializes each: an alert holds strings and floats only).
CheckAlerts(post) ==
    (IF post.viral_score >= 800
     THEN <<[type |-> "viral", score |-> post.viral_score]>>
     ELSE <<>>)
    \o (IF Abs(post.sentiment_score) >= 800
        THEN <<[type |-> "sentiment_spike", score |-> post.sentiment_score]>>
        ELSE <<>>)

(***************************************************************************)
(* One call, with arguments from the sets above.                           *)
(***************************************************************************)

CallCheckAlerts ==
    /\ call = NoCall
    /\ \E v \in ViralScores, s \in SentimentScores :
        /\ call' = [fn |-> "check_alerts", viral_score |-> v, sentiment_score |-> s]
        /\ ret' = [fn |-> "check_alerts",
                   alerts |-> CheckAlerts([viral_score |-> v, sentiment_score |-> s])]
    /\ UNCHANGED procVars
    /\ UNCHANGED concVars

CallExtractKeywords ==
    /\ call = NoCall
    /\ \E text \in SeqsUpTo(KeywordWords, MaxKeywordWords), top_n \in {1, 2} :
        /\ call' = [fn |-> "extract_keywords", text |-> text, top_n |-> top_n]
        /\ ret' = [fn |-> "extract_keywords", keywords |-> extract_keywords(text, top_n)]
    /\ UNCHANGED procVars
    /\ UNCHANGED concVars

CallExtractTopics ==
    /\ call = NoCall
    /\ \E text \in SeqsUpTo(TopicWords, MaxTopicWords) :
        /\ call' = [fn |-> "extract_topics", text |-> text]
        /\ ret' = [fn |-> "extract_topics", topics |-> extract_topics(text)]
    /\ UNCHANGED procVars
    /\ UNCHANGED concVars

CallPredict ==
    /\ call = NoCall
    /\ \E title \in Titles, body \in Bodies, score \in Scores,
          num_comments \in Comments, age10 \in Ages10 :
        /\ call' = [fn |-> "predict", title |-> title, body |-> body,
                    score |-> score, num_comments |-> num_comments,
                    age10 |-> age10]
        /\ ret' \in Predict(title, body, score, num_comments, age10)
    /\ UNCHANGED procVars
    /\ UNCHANGED concVars

CallAnalyze ==
    /\ call = NoCall
    /\ \E title \in Titles, body \in Bodies, score \in Scores,
          num_comments \in Comments, age10 \in Ages10, backend \in Backends :
        /\ call' = [fn |-> "analyze", title |-> title, body |-> body,
                    score |-> score, num_comments |-> num_comments,
                    age10 |-> age10, backend |-> backend]
        /\ ret' \in Analyze(title, body, score, num_comments, age10, backend)
    /\ UNCHANGED procVars
    /\ UNCHANGED concVars

CallNext ==
    \/ CallCheckAlerts
    \/ CallExtractKeywords
    \/ CallExtractTopics
    \/ CallPredict
    \/ CallAnalyze

\* No process: one call of one function.
CallSpec == InitWith({}) /\ [][CallNext]_vars

(***************************************************************************)
(* Concurrent calls of NLPPipeline.analyze on one pipeline object.  The    *)
(* pipeline, its three analyzers and their class tables are shared; each   *)
(* call has its own frame of local variables.  A step is one statement of  *)
(* analyze, or one features.append of predict.                             *)
(***************************************************************************)

\* The class tables, as the class bodies define them when the module loads.
Tables ==
    [loaded |-> TRUE,
     POSITIVE_WORDS |-> POSITIVE_WORDS,
     NEGATIVE_WORDS |-> NEGATIVE_WORDS,
     TOPIC_PATTERNS |-> TOPIC_PATTERNS,
     STOPWORDS |-> STOPWORDS,
     VIRAL_PATTERNS |-> VIRAL_PATTERNS,
     ENGAGEMENT_WORDS |-> ENGAGEMENT_WORDS]

\* What an installation fixes: whether vaderSentiment imports, the compound
\* score VADER gives a text with words (in 1/10000), and the side on which a
\* float lands where the exact value is a tie.  All three are functions of
\* the inputs alone.
Engines ==
    {[backend |-> "fallback", vader |-> 0, tie |-> t] : t \in {"down", "up"}}
    \cup {[backend |-> "vader", vader |-> v, tie |-> t] :
            v \in VaderCompounds, t \in {"down", "up"}}

\* The arguments the callers pass.  The exact viral score of the third is a
\* tie.
ConcCalls ==
    { [title |-> <<"how", "new">>, body |-> <<>>, score |-> 150,
       num_comments |-> 9, age10 |-> 5],
      [title |-> <<"good">>, body |-> <<"You", "new", "how", "new", "bad">>,
       score |-> 0, num_comments |-> 0, age10 |-> 0],
      [title |-> <<>>, body |-> <<>>, score |-> 2000,
       num_comments |-> 9, age10 |-> 0],
      [title |-> <<"bad", LongWord>>, body |-> <<>>, score |-> 36,
       num_comments |-> 9, age10 |-> 10] }

\* The frame of shared locals: every call keeps its locals in one place.
FrameShared(c) == "t1"

\* The frame that holds the locals of caller c's call: its own.
Frame(c) == c

\* The element of a set of possible float outcomes this engine produces.
PickScore(S) ==
    IF engine.tie = "down" THEN CHOOSE x \in S : \A y \in S : x <= y
    ELSE CHOOSE x \in S : \A y \in S : x >= y

PickEngagement(S) ==
    IF engine.tie = "down"
    THEN (IF "low" \in S THEN "low" ELSE IF "medium" \in S THEN "medium" ELSE "high")
    ELSE (IF "high" \in S THEN "high" ELSE IF "medium" \in S THEN "medium" ELSE "low")

\* SentimentAnalyzer.analyze's compound score under this engine.
Compound(ws) ==
    IF ws = <<>> THEN Rat(0, 1)
    ELSE IF engine.backend = "vader" THEN Rat(engine.vader, 10000)
    ELSE FallbackSentiment(ws)

\* The module is imported: the class tables exist, VADER is there or not.
Import ==
    /\ config = NoConfig
    /\ config' = Tables
    /\ engine' \in Engines
    /\ UNCHANGED <<threads, frames, procVars, callVars>>

\* A thread enters analyze(title, body, score, num_comments, age_hours).
AnalyzeBegin(c) ==
    /\ config # NoConfig
    /\ threads[c].pc \in {"idle", "done"}
    /\ \E a \in ConcCalls :
        threads' = [threads EXCEPT ![c] = [pc |-> "sentiment", args |-> a,
                                           k |-> 0, ret |-> NoRet]]
    /\ frames' = [frames EXCEPT ![Frame(c)] = NoLocals]
    /\ UNCHANGED <<config, engine, procVars, callVars>>

\* sent_score, sent_label = self.sentiment.analyze(text)
StepSentiment(c) ==
    /\ threads[c].pc = "sentiment"
    /\ LET a == threads[c].args
           compound == Compound(Words(a.title, a.body))
       IN  frames' = [frames EXCEPT ![Frame(c)].sent_score = compound,
                                    ![Frame(c)].sent_label = SentimentLabel(compound)]
    /\ threads' = [threads EXCEPT ![c].pc = "topics"]
    /\ UNCHANGED <<config, engine, procVars, callVars>>

\* topics = self.topics.extract_topics(text)
StepTopics(c) ==
    /\ threads[c].pc = "topics"
    /\ LET a == threads[c].args
       IN  frames' = [frames EXCEPT ![Frame(c)].topics = extract_topics(a.title \o a.body)]
    /\ threads' = [threads EXCEPT ![c].pc = "keywords"]
    /\ UNCHANGED <<config, engine, procVars, callVars>>

\* keywords = self.topics.extract_keywords(text)
StepKeywords(c) ==
    /\ threads[c].pc = "keywords"
    /\ LET a == threads[c].args
       IN  frames' = [frames EXCEPT ![Frame(c)].keywords =
                                        extract_keywords(a.title \o a.body, 10)]
    /\ threads' = [threads EXCEPT ![c].pc = "predict"]
    /\ UNCHANGED <<config, engine, procVars, callVars>>

\* self.viral.predict(...) is entered: features = []
PredictBegin(c) ==
    /\ threads[c].pc = "predict"
    /\ frames' = [frames EXCEPT ![Frame(c)].features = <<>>]
    /\ threads' = [threads EXCEPT ![c].pc = "features", ![c].k = 1]
    /\ UNCHANGED <<config, engine, procVars, callVars>>

\* The k-th features.append(...) of predict.
AppendFeature(c) ==
    /\ threads[c].pc = "features"
    /\ LET a == threads[c].args
           k == threads[c].k
           f == Features(a.title, a.body, a.score, a.num_comments, a.age10)[k]
       IN  /\ frames' = [frames EXCEPT ![Frame(c)].features = Append(@, f)]
           /\ threads' = [threads EXCEPT ![c].k = k + 1,
                                         ![c].pc = IF k = 6 THEN "mean" ELSE "features"]
    /\ UNCHANGED <<config, engine, procVars, callVars>>

\* viral_score = sum(features) / len(features), the engagement label, and
\* predict returns.  An empty list is a division by zero, which leaves
\* analyze as ZeroDivisionError.
PredictReturn(c) ==
    /\ threads[c].pc = "mean"
    /\ IF frames[Frame(c)].features = <<>>
       THEN /\ threads' = [threads EXCEPT ![c].pc = "done",
                               ![c].ret = [fn |-> "raise", exc |-> "ZeroDivisionError"]]
            /\ UNCHANGED frames
       ELSE /\ LET viral_score == ViralScore(frames[Frame(c)].features)
               IN  frames' = [frames EXCEPT
                       ![Frame(c)].viral_score = viral_score,
                       ![Frame(c)].engagement = PickEngagement(Engagements(viral_score))]
            /\ threads' = [threads EXCEPT ![c].pc = "return"]
    /\ UNCHANGED <<config, engine, procVars, callVars>>

\* return NLPResult(...): the scores rounded to 3 decimals (entities left
\* out).
AnalyzeReturn(c) ==
    /\ threads[c].pc = "return"
    /\ LET l == frames[Frame(c)]
       IN  threads' = [threads EXCEPT
               ![c].pc = "done",
               ![c].ret = [fn |-> "analyze",
                           sentiment_score |-> PickScore(Round3(l.sent_score)),
                           sentiment_label |-> l.sent_label,
                           topics |-> l.topics,
                           keywords |-> l.keywords,
                           viral_score |-> PickScore(Round3(l.viral_score)),
                           engagement_prediction |-> l.engagement]]
    /\ UNCHANGED <<config, engine, frames, procVars, callVars>>

ConcNext ==
    \/ Import
    \/ \E c \in Callers :
        \/ AnalyzeBegin(c)
        \/ StepSentiment(c)
        \/ StepTopics(c)
        \/ StepKeywords(c)
        \/ PredictBegin(c)
        \/ AppendFeature(c)
        \/ PredictReturn(c)
        \/ AnalyzeReturn(c)

\* No processor: threads calling analyze on one pipeline.
ConcSpec == InitWith({}) /\ [][ConcNext]_vars

(***************************************************************************)
(* Alerts and scores                                                       *)
(***************************************************************************)

\* C15: check_alerts emits a 'viral' alert iff viral_score >= 0.8 and a
\* 'sentiment_spike' alert iff |sentiment_score| >= 0.8, each condition on
\* its own: the number of alerts is the number of conditions that hold.
C15_AlertsMatchConditions ==
    call.fn = "check_alerts" =>
        LET types == {ret.alerts[i].type : i \in DOMAIN ret.alerts}
            viral == call.viral_score >= 800
            spike == call.sentiment_score >= 800 \/ call.sentiment_score <= -800
        IN  /\ ("viral" \in types) <=> viral
            /\ ("sentiment_spike" \in types) <=> spike
            /\ Len(ret.alerts) = (IF viral THEN 1 ELSE 0) + (IF spike THEN 1 ELSE 0)

\* check_alerts was called with both thresholds exceeded and emitted the
\* viral alert, then the sentiment alert.
C15_BothThresholdsTwoAlerts ==
    /\ call.fn = "check_alerts"
    /\ call.viral_score = 810
    /\ call.sentiment_score = -900
    /\ Len(ret.alerts) = 2
    /\ ret.alerts[1].type = "viral"
    /\ ret.alerts[2].type = "sentiment_spike"

\* C16: the sentiment_label analyze returns is the label of the
\* sentiment_score it returns: positive iff >= 0.05, negative iff <= -0.05,
\* else neutral.
C16_LabelOfReturnedSentiment ==
    call.fn = "analyze" =>
        ret.sentiment_label =
            (IF ret.sentiment_score >= 50 THEN "positive"
             ELSE IF ret.sentiment_score <= -50 THEN "negative"
             ELSE "neutral")

\* C17: the engagement_prediction analyze returns is the label of the
\* viral_score it returns: high iff >= 0.7, medium iff >= 0.4, else low.
C17_EngagementOfReturnedViralScore ==
    call.fn = "analyze" =>
        ret.engagement_prediction =
            (IF ret.viral_score >= 700 THEN "high"
             ELSE IF ret.viral_score >= 400 THEN "medium"
             ELSE "low")

\* C18: every feature of predict, and the viral_score it returns, lies in
\* [0,1].
C18_FeaturesInUnitInterval ==
    call.fn = "predict" =>
        /\ \A i \in DOMAIN ret.features :
               RatLeq(Rat(0, 1), ret.features[i]) /\ RatLeq(ret.features[i], Rat(1, 1))
        /\ RatLeq(Rat(0, 1), ret.viral_score)
        /\ RatLeq(ret.viral_score, Rat(1, 1))

\* C19, as stated: the engagement-word feature is the share of the words of
\* the lowercased title and body that are engagement words, divided by 5 and
\* clamped at 1.
C19_EngagementFeatureIsShare ==
    call.fn = "predict" =>
        LET ws == Words(call.title, call.body)
            eng_count == CountIn(ws, ENGAGEMENT_WORDS)
        IN  ret.features[2] =
                (IF ws = <<>> THEN Rat(0, 1)
                 ELSE RatMin(Rat(eng_count, 5 * Len(ws)), Rat(1, 1)))

\* C19, amended: the engagement-word feature is the number of the words of
\* the lowercased title and body that are engagement words, divided by 5 and
\* clamped at 1.
C19_EngagementFeatureIsCount ==
    call.fn = "predict" =>
        LET eng_count == CountIn(Words(call.title, call.body), ENGAGEMENT_WORDS)
        IN  5 * ret.features[2].n =
                (IF eng_count < 5 THEN eng_count ELSE 5) * ret.features[2].d

\* predict was called with six words, five of them engagement words: the
\* feature is 1.
C19_FiveOfSixWords ==
    /\ call.fn = "predict"
    /\ Len(Words(call.title, call.body)) = 6
    /\ CountIn(Words(call.title, call.body), ENGAGEMENT_WORDS) = 5
    /\ ret.features[2] = Rat(1, 1)

\* C20, as stated: "ai ai ml ml ai" with top_n=2 gives ["ai", "ml"].
C20_AiMlReturned ==
    (/\ call.fn = "extract_keywords"
     /\ call.text = <<"ai", "ai", "ml", "ml", "ai">>
     /\ call.top_n = 2)
    => ret.keywords = <<"ai", "ml">>

\* C20, amended: no keyword is shorter than 3 characters, so "ai ai ml ml ai"
\* gives []; longer words are ranked by count, equal counts in the order of
\* first occurrence: "rust rust Java! Java! rust" gives ["rust", "java"] and
\* "Java! rust rust Java!" gives ["java", "rust"].
C20_ShortWordsDropped ==
    (call.fn = "extract_keywords" /\ call.top_n = 2) =>
        /\ \A i \in DOMAIN ret.keywords : Len(ret.keywords[i]) > 2
        /\ call.text = <<"ai", "ai", "ml", "ml", "ai">> => ret.keywords = <<>>
        /\ call.text = <<"rust", "rust", "Java!", "Java!", "rust">>
               => ret.keywords = <<"rust", "java">>
        /\ call.text = <<"Java!", "rust", "rust", "Java!">>
               => ret.keywords = <<"java", "rust">>

\* extract_keywords was called on "ai ai ml ml ai" with top_n=2 and returned
\* the empty list.
C20_AiMlGivesNothing ==
    /\ call.fn = "extract_keywords"
    /\ call.text = <<"ai", "ai", "ml", "ml", "ai">>
    /\ call.top_n = 2
    /\ ret.keywords = <<>>

(***************************************************************************)
(* Keywords and topics                                                     *)
(***************************************************************************)

\* C21: extract_keywords returns at most top_n words, each once, none of
\* them a stopword or shorter than 3 characters; a returned word is at least
\* as frequent among the retained words as every word after it and as every
\* retained word that was not returned, and of two equally frequent words
\* the one that occurs first in the input comes first.
C21_TopKeywordsRanked ==
    call.fn = "extract_keywords" =>
        LET kw == ret.keywords
            retained == Filtered(Clean(call.text))
            n(w) == CountIn(retained, {w})
            first(w) == CHOOSE i \in DOMAIN retained :
                            retained[i] = w /\ \A j \in 1..(i - 1) : retained[j] # w
        IN  /\ Len(kw) <= call.top_n
            /\ \A i \in DOMAIN kw :
                   /\ kw[i] \notin STOPWORDS
                   /\ Len(kw[i]) > 2
                   /\ n(kw[i]) > 0
            /\ \A i, j \in DOMAIN kw :
                   i < j => \/ n(kw[i]) > n(kw[j])
                            \/ n(kw[i]) = n(kw[j]) /\ first(kw[i]) < first(kw[j])
            /\ \A w \in Range(retained) \ Range(kw) :
                   /\ Len(kw) = call.top_n
                   /\ \A i \in DOMAIN kw :
                          \/ n(kw[i]) > n(w)
                          \/ n(kw[i]) = n(w) /\ first(kw[i]) < first(w)

\* extract_keywords was called on "the Java! rust rust Java!" with top_n=2:
\* the stopword is gone and "java", which comes first, leads the tie.
C21_TieAfterStopword ==
    /\ call.fn = "extract_keywords"
    /\ call.text = <<"the", "Java!", "rust", "rust", "Java!">>
    /\ call.top_n = 2
    /\ ret.keywords = <<"java", "rust">>

\* C22: extract_topics never returns an empty list; it returns ["General"]
\* exactly when no trigger phrase of any topic is a substring of the
\* lowercased text, and otherwise every matching topic and no other, once
\* each, in the declaration order of TOPIC_PATTERNS.
C22_TopicsInTableOrder ==
    call.fn = "extract_topics" =>
        LET text_lower == Join([i \in DOMAIN call.text |-> Lower(call.text[i])])
            hits == {k \in DOMAIN TOPIC_PATTERNS :
                        \E kw \in TOPIC_PATTERNS[k].keywords : Contains(text_lower, kw)}
            pos(name) == CHOOSE k \in DOMAIN TOPIC_PATTERNS : TOPIC_PATTERNS[k].topic = name
        IN  /\ ret.topics # <<>>
            /\ (ret.topics = <<"General">>) <=> (hits = {})
            /\ hits # {} =>
                   /\ \A i \in DOMAIN ret.topics :
                          \E k \in hits : TOPIC_PATTERNS[k].topic = ret.topics[i]
                   /\ \A k \in hits :
                          \E i \in DOMAIN ret.topics : ret.topics[i] = TOPIC_PATTERNS[k].topic
                   /\ \A i, j \in DOMAIN ret.topics :
                          i < j => pos(ret.topics[i]) < pos(ret.topics[j])

\* extract_topics was called on "Rust said bitcoin": "said" holds "ai", so
\* three topics match, and they come in the order of the table.
C22_ThreeTopics ==
    /\ call.fn = "extract_topics"
    /\ call.text = <<"Rust", "said", "bitcoin">>
    /\ ret.topics = <<"AI/ML", "Crypto", "Programming">>

\* extract_topics was called on a text no phrase matches.
C22_GeneralFallback ==
    /\ call.fn = "extract_topics"
    /\ call.text = <<"hello", "rate">>
    /\ ret.topics = <<"General">>

(***************************************************************************)
(* The storage write on a collision                                        *)
(***************************************************************************)

\* C25: no step changes a stored Post; when insert_post finds the
\* external_id stored already it adds nothing to the session (it returns
\* None, the batch does not count it), and the commit that follows leaves the
\* table as it was.
C25_CollisionIsNoOp ==
    [][/\ \A i \in DOMAIN posts : i \in DOMAIN posts' /\ posts'[i] = posts[i]
       /\ \A p \in Procs :
              /\ (/\ pc[p] = "store_query"
                  /\ pc'[p] = "store_commit"
                  /\ Existing(processed[p].external_id))
                 => ~pending'[p]
              /\ (/\ pc[p] = "store_commit"
                  /\ pc'[p] = "publish"
                  /\ ~pending[p])
                 => posts' = posts /\ ~inserted'[p]]_vars

\* store_post has returned for a record whose external_id was stored already
\* with another title: nothing was inserted, the stored title is the first.
C25_FirstWriteWins ==
    \E p \in Procs :
        /\ pc[p] = "publish"
        /\ ~inserted[p]
        /\ Len(posts) = 1
        /\ posts[1].external_id = processed[p].external_id
        /\ posts[1].title = ""
        /\ processed[p].title = "Untitled thread"

(***************************************************************************)
(* Counters                                                                *)
(***************************************************************************)

\* C23: when the loop is done with an enriched record, processed_count has
\* grown by exactly 1, metrics['processed'] is processed_count, and the
\* average was updated with the record's latency sample.
C23_SuccessCountedOnce ==
    [][\A p \in Procs :
          (/\ pc[p] \in RecordSteps
           /\ pc'[p] \notin RecordSteps
           /\ events' = events)
          => /\ processed_count'[p] = processed_count[p] + 1
             /\ metrics'[p].processed = processed_count'[p]
             /\ metrics'[p].last_processed # "None"]_vars

\* C24: as long as the instance exists (no new instance is constructed in
\* its place), no step decreases processed_count or error_count.
C24_CountersNeverDecrease ==
    [][\A p \in Procs :
          pc[p] \notin {"none", "absent", "exited"}
          => /\ processed_count'[p] >= processed_count[p]
             /\ error_count'[p] >= error_count[p]]_vars

\* An instance that counted an error in its first run was stopped,
\* reconnected and run again: the error is still counted.
C24_CountKeptAcrossRuns ==
    \E p \in Procs :
        /\ pc[p] = "poll"
        /\ reconnected[p]
        /\ error_count[p] = 1
        /\ closeCalls[p] >= 1

\* The positions of run() while it handles a message poll has returned.
HandlingSteps == {"pm_decode", "pm_fromiso", "pm_nlp"} \cup RecordSteps

\* C28: when the loop is done with a message, exactly one of processed_count
\* and error_count has grown, by 1, and metrics['processed'] is
\* processed_count.
C28_EveryMessageCountedOnce ==
    [][\A p \in Procs :
          (/\ pc[p] \in HandlingSteps
           /\ pc'[p] \notin HandlingSteps
           /\ events' = events)
          => /\ processed_count'[p] + error_count'[p]
                    = processed_count[p] + error_count[p] + 1
             /\ processed_count'[p] >= processed_count[p]
             /\ error_count'[p] >= error_count[p]
             /\ metrics'[p].processed = processed_count'[p]]_vars

\* store_post has returned without inserting a row for a record whose
\* external_id is in the table (stored by an earlier delivery): the insert
\* was skipped as a duplicate, or it failed.
NotInsertedAgain(p) ==
    /\ processed[p] # NoRec
    /\ ~inserted[p]
    /\ Existing(processed[p].external_id)

\* C30: a redelivered record for which no row was inserted is republished
\* by the loop's next step all the same, and the loop goes on to the alerts.
C30_DuplicateStillRepublished ==
    [][\A p \in Procs :
          (/\ pc[p] = "publish"
           /\ NotInsertedAgain(p)
           /\ events' = events
           /\ pc'[p] # "publish")
          => /\ outStream' = Append(outStream, processed[p].external_id)
             /\ pc'[p] = "alerts"]_vars

(***************************************************************************)
(* Two processors, one table                                               *)
(***************************************************************************)

\* No two stored rows carry the same external_id.
NoTwinRows ==
    \A i, j \in DOMAIN posts :
        posts[i].external_id = posts[j].external_id => i = j

\* C27: under every interleaving of two processors' check-then-insert steps
\* the table never holds two rows with one external_id, and store_post
\* returns to the loop (no exception, next statement) whatever the insert
\* did.
C27_OneRowPerIdLoopGoesOn ==
    /\ []NoTwinRows
    /\ [][\A p \in Procs :
             (/\ pc[p] \in {"store_query", "store_commit"}
              /\ pc'[p] # pc[p])
             => /\ pc'[p] \in {"store_commit", "publish"}
                /\ exc'[p] = exc[p]
                /\ running'[p] = running[p]]_vars

\* Both processors found the external_id absent, one has committed its
\* row, the other is about to commit its own.
C27_BothPassedTheCheck ==
    \E p, q \in Procs :
        /\ p # q
        /\ pc[p] = "publish"
        /\ inserted[p]
        /\ pc[q] = "store_commit"
        /\ pending[q]
        /\ processed[q].external_id = processed[p].external_id
        /\ Existing(processed[q].external_id)

\* Two raw records are the same post: the same record delivered twice, or
\* records with the same source and the same native id, the id being present.
SameNativeKey(m1, m2) ==
    \/ m1 = m2
    \/ /\ m1["source"] = m2["source"]
       /\ m1["id"] = m2["id"]
       /\ m1["id"] # Missing

\* C29: insert_post skips a record as a duplicate of the row another
\* processor stored only when the two raw records carry the same source and
\* the same native id; records without an id never suppress each other.
C29_OnlySamePostSuppressed ==
    [][\A p, q \in Procs :
          (/\ p # q
           /\ pc[q] = "publish"
           /\ inserted[q]
           /\ processed[q].external_id = processed[p].external_id
           /\ pc[p] = "store_query"
           /\ pc'[p] = "store_commit"
           /\ ~pending'[p])
          => SameNativeKey(msg[p], msg[q])]_vars

(***************************************************************************)
(* Concurrent callers of the pipeline                                      *)
(***************************************************************************)

\* What analyze returns for the arguments when no other call is running:
\* the composition of the analyzers' functions.
AnalyzeAlone(a) ==
    LET ws == Words(a.title, a.body)
        compound == Compound(ws)
        viral_score == ViralScore(Features(a.title, a.body, a.score,
                                           a.num_comments, a.age10))
    IN  [fn |-> "analyze",
         sentiment_score |-> PickScore(Round3(compound)),
         sentiment_label |-> SentimentLabel(compound),
         topics |-> extract_topics(a.title \o a.body),
         keywords |-> extract_keywords(a.title \o a.body, 10),
         viral_score |-> PickScore(Round3(viral_score)),
         engagement_prediction |-> PickEngagement(Engagements(viral_score))]

\* Every call that has returned has returned what it returns alone.
ReturnsAsAlone ==
    \A c \in Callers :
        threads[c].pc = "done" => threads[c].ret = AnalyzeAlone(threads[c].args)

====
